---------------------------- MODULE Spec2Model ----------------------------
(***************************************************************************)
(* The normalization pipeline of create_corpus.py: the character folder    *)
(* with its process-wide table cache, the word normalizer, the sentence    *)
(* filter and the line processor.                                          *)
(*                                                                         *)
(* A text is a sequence of codepoints (integers).  The transliteration     *)
(* tables, the sentence segmenter and the word tokenizer are external: the *)
(* tables are one of a few installed resources chosen in Init, the         *)
(* segmenter's and tokenizer's results are chosen when they are consumed.  *)
(***************************************************************************)
EXTENDS Integers, Sequences, FiniteSets, TLC

VARIABLES
    resource,   \* which transliteration tables are installed (never changes)
    Cache,      \* unidecode.Cache: section -> "absent" | "None" | "data"
    loads,      \* per section, how many times line 99 tried to import its table
    pc,         \* "idle" | "returned" | "line" (inside process_line's loop)
    call,       \* the last call made: its operation, argument and outcome
    min_words,  \* process_line's parameter during the call
    consumed,   \* how many of the segmenter's sentences the loop has taken
    sentences   \* process_line's local list of accepted sentences

vars == <<resource, Cache, loads, pc, call, min_words, consumed, sentences>>

----------------------------------------------------------------------------
(* Bounds of the model *)

\* longest text handed to the character folder
MaxTextLen == 2
\* longest token handed to the word normalizer
MaxWordLen == 3
\* most tokens the tokenizer returns for one sentence
MaxTokens == 2
\* most sentences the segmenter returns for one line
MaxSents == 2

----------------------------------------------------------------------------
(* Codepoints and strings *)

\* a value that is no string: Python's None
None == <<-1>>

\* line 42: the literal '<num>'
NumToken == <<60, 110, 117, 109, 62>>

\* line 80: the codepoints that are never transliterated
Retained == {228, 196, 246, 214, 252, 220}

\* string.punctuation and the four typographic quotes of line 46
Punctuation ==
    (33..47) \cup (58..64) \cup (91..96) \cup (123..126)
        \cup {8222, 8220, 8218, 8216}

\* [0-9] of line 50
Digits == 48..57

\* the characters str.strip() removes that can occur in a folded text
Whitespace == (9..13) \cup (28..32)

IsSurrogate(cp) == 55296 <= cp /\ cp <= 57343

\* line 92
SectionOf(cp) == cp \div 256
\* line 93
PositionOf(cp) == cp % 256

RECURSIVE Concat(_)
\* ''.join(pieces), for pieces that are all strings
Concat(pieces) ==
    IF pieces = <<>> THEN <<>> ELSE Head(pieces) \o Concat(Tail(pieces))

\* str.lower() on a folded text: ASCII letters and the retained umlauts
str_lower(s) ==
    [i \in 1..Len(s) |->
        IF (65 <= s[i] /\ s[i] <= 90) \/ s[i] \in {196, 214, 220}
        THEN s[i] + 32 ELSE s[i]]

RECURSIVE LStrip(_)
LStrip(s) ==
    IF s # <<>> /\ Head(s) \in Whitespace THEN LStrip(Tail(s)) ELSE s

RECURSIVE RStrip(_)
RStrip(s) ==
    IF s # <<>> /\ s[Len(s)] \in Whitespace
    THEN RStrip(SubSeq(s, 1, Len(s) - 1)) ELSE s

\* str.strip()
str_strip(s) == RStrip(LStrip(s))

----------------------------------------------------------------------------
(* The transliteration resource: the unidecode.xNNN modules *)

\* the sections the modelled characters fall into
Sections == {0, 48, 216, 224}

\* "plain":     every slot of a table is a string, no table for 0xd8, 0xe0
\* "sparse":    as plain, but slots of unknown characters hold None
\* "surrogate": as plain, plus a table for section 0xd8
Resources == {"plain", "sparse", "surrogate"}

\* line 99: whether __import__('unidecode.x%03x' % section) finds a module
\* (FALSE is the ImportError): x000 and x030, and x0d8 where it is installed
ModuleFound(res, section) ==
    section \in {0, 48} \/ (section = 216 /\ res = "surrogate")

\* line 106: len(table) for the data of the section's module; x030 is one
\* slot short (no slot for position 0xff)
TableLen(res, section) == IF section = 48 THEN 255 ELSE 256

\* line 107: table[position] for the data of the section's module
TableSlot(res, section, position) ==
    CASE section = 0 /\ position = 233 -> <<101>>       \* e acute -> 'e'
      [] section = 0 /\ position = 228 -> <<97>>        \* a umlaut -> 'a'
      [] section = 0 /\ position = 196 -> <<65>>        \* A umlaut -> 'A'
      [] section = 0 /\ position = 189 -> <<32, 49, 47, 50, 32>>
                                                        \* one half -> ' 1/2 '
      [] section = 0 /\ position = 128 ->
            IF res = "sparse" THEN None ELSE <<>>
      [] section = 48 /\ position = 162 -> <<97>>       \* katakana a -> 'a'
      [] section = 216 -> <<63>>                        \* '?'
      [] OTHER -> <<>>

----------------------------------------------------------------------------
(* The character folder *)

\* the loop's state: the cache, the import and warning counters, and retval
FoldState(C, L) ==
    [Cache |-> C, loads |-> L, retval |-> <<>>, warned |-> 0, imports |-> 0]

\* lines 106-107, for a table that is the data of the section's module
\* (hasTable) or None
AppendFromTable(res, st, hasTable, section, position) ==
    IF hasTable /\ TableLen(res, section) > 0
                /\ TableLen(res, section) > position
    THEN [st EXCEPT !.retval = Append(@, TableSlot(res, section, position))]
    ELSE st

\* line 99 is reached: one more import of the section's module is tried
ImportTried(st, section) ==
    [st EXCEPT !.loads[section] = @ + 1, !.imports = @ + 1]

\* LookupAndAppend with the line 'Cache[section] = None' lost: a failed
\* import leaves no marker behind
LookupAndAppend_no_marker(res, st, section, position) ==
    IF st.Cache[section] = "absent"
    THEN IF ~ModuleFound(res, section)
         THEN ImportTried(st, section)
         ELSE AppendFromTable(res,
                  [ImportTried(st, section) EXCEPT !.Cache[section] = "data"],
                  TRUE, section, position)
    ELSE AppendFromTable(res, st, st.Cache[section] = "data",
                         section, position)

\* lines 95-107: the cache lookup, the load on a miss, and the append
LookupAndAppend(res, st, section, position) ==
    IF st.Cache[section] = "absent"
    THEN IF ~ModuleFound(res, section)
         THEN [ImportTried(st, section) EXCEPT !.Cache[section] = "None"]
         ELSE AppendFromTable(res,
                  [ImportTried(st, section) EXCEPT !.Cache[section] = "data"],
                  TRUE, section, position)
    ELSE AppendFromTable(res, st, st.Cache[section] = "data",
                         section, position)

\* lines 84-107: a character that is neither ASCII nor retained
FoldOther(res, st, codepoint) ==
    IF codepoint > 983039
    THEN st
    ELSE LookupAndAppend(res,
                         IF IsSurrogate(codepoint)
                         THEN [st EXCEPT !.warned = @ + 1] ELSE st,
                         SectionOf(codepoint), PositionOf(codepoint))

\* FoldChar as unidecode has it, without the retained umlauts of line 80
FoldChar_ascii_only(res, st, codepoint) ==
    IF codepoint < 128
    THEN [st EXCEPT !.retval = Append(@, <<codepoint>>)]
    ELSE FoldOther(res, st, codepoint)

\* lines 76-107: one iteration of the loop, for the character with this
\* codepoint
FoldChar(res, st, codepoint) ==
    IF codepoint < 128 \/ codepoint \in Retained
    THEN [st EXCEPT !.retval = Append(@, <<codepoint>>)]
    ELSE FoldOther(res, st, codepoint)

RECURSIVE FoldLoop(_, _, _)
\* line 76: for char in text
FoldLoop(res, st, text) ==
    IF text = <<>> THEN st
    ELSE FoldLoop(res, FoldChar(res, st, Head(text)), Tail(text))

\* line 109: ''.join(retval), which raises a TypeError when retval holds a
\* None; st is the state the loop ended in
JoinRetval(st) ==
    [Cache |-> st.Cache, loads |-> st.loads, retval |-> st.retval,
     warned |-> st.warned, imports |-> st.imports,
     raised |-> \E i \in 1..Len(st.retval) : st.retval[i] = None,
     ret |-> IF \E i \in 1..Len(st.retval) : st.retval[i] = None
             THEN <<>> ELSE Concat(st.retval)]

\* lines 72-109
_unidecode_keep_umlauts(res, C, L, text) ==
    JoinRetval(FoldLoop(res, FoldState(C, L), text))

\* lines 59-69: a text that encodes as ASCII is returned as it is
unidecode_keep_umlauts(res, C, L, text) ==
    IF \A i \in 1..Len(text) : text[i] < 128
    THEN [Cache |-> C, loads |-> L, retval |-> <<>>, warned |-> 0,
          imports |-> 0, raised |-> FALSE, ret |-> text]
    ELSE _unidecode_keep_umlauts(res, C, L, text)

----------------------------------------------------------------------------
(* The word normalizer *)

\* remove_punctuation with a punctuation set that spares the placeholder '#'
remove_punctuation_keep_placeholder(text) ==
    SelectSeq(text, LAMBDA c : c \notin Punctuation \ {35})

\* lines 46-47
remove_punctuation(text) ==
    SelectSeq(text, LAMBDA c : c \notin Punctuation)

\* repl='#' of line 50
Repl == <<35>>

RECURSIVE SkipDigits(_)
\* the rest of a text after the digits it starts with
SkipDigits(text) ==
    IF text # <<>> /\ Head(text) \in Digits THEN SkipDigits(Tail(text)) ELSE text

RECURSIVE SubNumeric(_)
\* re.sub('[0-9]+', repl, text)
SubNumeric(text) ==
    IF text = <<>> THEN <<>>
    ELSE IF Head(text) \in Digits THEN Repl \o SubNumeric(SkipDigits(text))
    ELSE <<Head(text)>> \o SubNumeric(Tail(text))

RECURSIVE SubDigit(_)
\* re.sub('[0-9]', repl, text)
SubDigit(text) ==
    IF text = <<>> THEN <<>>
    ELSE IF Head(text) \in Digits THEN Repl \o SubDigit(Tail(text))
    ELSE <<Head(text)>> \o SubDigit(Tail(text))

RECURSIVE SubNumericOnce(_)
\* re.sub('[0-9]+', repl, text, count=1)
SubNumericOnce(text) ==
    IF text = <<>> THEN <<>>
    ELSE IF Head(text) \in Digits THEN Repl \o SkipDigits(text)
    ELSE <<Head(text)>> \o SubNumericOnce(Tail(text))

\* replace_numeric replacing the first match only
replace_numeric_first_match(text, by_single_digit) ==
    IF by_single_digit THEN SubNumericOnce(text) ELSE SubDigit(text)

\* lines 50-52
replace_numeric(text, by_single_digit) ==
    IF by_single_digit THEN SubNumeric(text) ELSE SubDigit(text)

\* lines 40-43: everything normalize_word does to the folded token
NormalizeFolded(folded) ==
    LET _token == replace_numeric(remove_punctuation(folded), TRUE)
    IN  str_lower(str_strip(IF _token = Repl THEN NumToken ELSE _token))

\* lines 40-43, for the outcome f of the fold
NormalizeOutcome(f) ==
    [f EXCEPT !.ret = IF f.raised THEN <<>> ELSE NormalizeFolded(f.ret)]

\* lines 38-43
normalize_word(res, C, L, token) ==
    NormalizeOutcome(unidecode_keep_umlauts(res, C, L, token))

----------------------------------------------------------------------------
(* The sentence filter *)

RECURSIVE JoinSpace(_)
\* ' '.join(words)
JoinSpace(words) ==
    IF words = <<>> THEN <<>>
    ELSE IF Len(words) = 1 THEN Head(words)
    ELSE Head(words) \o <<32>> \o JoinSpace(Tail(words))

\* line 32: the outcome n of one normalize_word joins the words collected
Collect(st, n) ==
    [Cache |-> n.Cache, loads |-> n.loads, raised |-> n.raised,
     words |-> IF n.raised THEN st.words ELSE Append(st.words, n.ret)]

RECURSIVE NormalizeAll(_, _, _)
\* line 32: the list comprehension, token by token; it stops at the first
\* token whose normalization raises.  st.words collects the results.
NormalizeAll(res, st, tokens) ==
    IF tokens = <<>> \/ st.raised THEN st
    ELSE NormalizeAll(res,
             Collect(st, normalize_word(res, st.Cache, st.loads, Head(tokens))),
             Tail(tokens))

\* FilterAndJoin with the threshold applied to the words that remain
FilterAndJoin_count_remaining(words, mw) ==
    IF Len(SelectSeq(words, LAMBDA w : w # <<>>)) >= mw
    THEN str_strip(JoinSpace(SelectSeq(words, LAMBDA w : w # <<>>)))
    ELSE <<>>

\* lines 33-35, for the normalized words of the sentence
FilterAndJoin(words, mw) ==
    IF Len(words) >= mw
    THEN str_strip(JoinSpace(SelectSeq(words, LAMBDA w : w # <<>>)))
    ELSE <<>>

\* lines 33-35, after the list comprehension ended in st
SentenceOutcome(st, mw) ==
    [Cache |-> st.Cache, loads |-> st.loads, raised |-> st.raised,
     ret |-> IF st.raised THEN <<>> ELSE FilterAndJoin(st.words, mw)]

\* lines 31-35, for the tokens word_tokenize returned
process_sentence(res, C, L, sent, mw) ==
    SentenceOutcome(
        NormalizeAll(res,
            [Cache |-> C, loads |-> L, raised |-> FALSE, words |-> <<>>],
            sent),
        mw)

\* AppendIfTruthy without the test of line 25
AppendIfTruthy_always(list, sentence_processed) ==
    Append(list, sentence_processed)

\* lines 25-26
AppendIfTruthy(list, sentence_processed) ==
    IF sentence_processed # <<>> THEN Append(list, sentence_processed) ELSE list

----------------------------------------------------------------------------
(* Inputs *)

\* every sequence over S of at most n elements
SeqsUpTo(S, n) == UNION {[1..k -> S] : k \in 0..n}

\* the characters folded: 'a', a umlaut, e acute, U+0080 (empty or absent
\* slot), U+30FF (beyond its table), a surrogate, U+E000 (no table), and
\* U+F0000 (above 0xeffff)
FoldChars == {97, 228, 233, 128, 12543, 55296, 57344, 983040}
FoldTexts == SeqsUpTo(FoldChars, MaxTextLen)

\* the characters of a token: 'a', '1', '!', A umlaut, one half, U+0080
WordChars == {97, 49, 33, 196, 189, 128}
Tokens == SeqsUpTo(WordChars, MaxWordLen) \ {<<>>}

\* the tokens of a sentence: a word, a punctuation mark, two fractions, and
\* a character whose slot may be absent
LineTokens == {<<97>>, <<33>>, <<189, 189>>, <<128>>}
TokenLists == SeqsUpTo(LineTokens, MaxTokens) \ {<<>>}

----------------------------------------------------------------------------
(* The state machine *)

NoCall ==
    [op |-> "none", arg |-> <<>>, ret |-> <<>>, raised |-> FALSE,
     warned |-> 0, imports |-> 0, retval |-> <<>>]

\* unidecode.Cache starts empty; nothing has been called
Init ==
    /\ resource \in Resources
    /\ Cache = [s \in Sections |-> "absent"]
    /\ loads = [s \in Sections |-> 0]
    /\ pc = "idle"
    /\ call = NoCall
    /\ min_words = 0
    /\ consumed = 0
    /\ sentences = <<>>

\* the call op(arg) ends with outcome r: the cache as the call left it, and
\* the result (or the exception) in the caller's hands
Returns(op, arg, r) ==
    /\ Cache' = r.Cache
    /\ loads' = r.loads
    /\ call' = [op |-> op, arg |-> arg, ret |-> r.ret, raised |-> r.raised,
                warned |-> r.warned, imports |-> r.imports,
                retval |-> r.retval]
    /\ pc' = "returned"
    /\ UNCHANGED <<resource, min_words, consumed, sentences>>

\* a call of unidecode_keep_umlauts(text)
Fold(text) ==
    /\ pc = "idle"
    /\ Returns("fold", text,
               unidecode_keep_umlauts(resource, Cache, loads, text))

\* a call of normalize_word(token)
Normalize(token) ==
    /\ pc = "idle"
    /\ Returns("normalize", token,
               normalize_word(resource, Cache, loads, token))

\* normalize_word called on the token the last normalize_word returned
Renormalize ==
    /\ pc = "returned"
    /\ call.op = "normalize"
    /\ ~call.raised
    /\ Returns("renormalize", call.ret,
               normalize_word(resource, Cache, loads, call.ret))

\* lines 20-22: process_line is entered; the segmenter's sentences are taken
\* one by one as the loop reaches them
ProcessLineBegin(mw) ==
    /\ pc = "idle"
    /\ pc' = "line"
    /\ min_words' = mw
    /\ consumed' = 0
    /\ sentences' = <<>>
    /\ call' = NoCall
    /\ UNCHANGED <<resource, Cache, loads>>

\* lines 24-26: process_sentence(sent) ends with outcome r
SentenceReturns(sent, r) ==
    /\ Cache' = r.Cache
    /\ loads' = r.loads
    /\ call' = [op |-> "process_sentence", arg |-> sent, ret |-> r.ret,
                raised |-> r.raised, warned |-> 0, imports |-> 0,
                retval |-> <<>>]
    /\ pc' = IF r.raised THEN "returned" ELSE "line"
    /\ sentences' = IF r.raised THEN sentences
                    ELSE AppendIfTruthy(sentences, r.ret)
    /\ consumed' = consumed + 1
    /\ UNCHANGED <<resource, min_words>>

\* lines 23-26: one iteration, for a sentence whose tokens are sent; an
\* exception of process_sentence ends process_line
ProcessLineSentence(sent) ==
    /\ pc = "line"
    /\ consumed < MaxSents
    /\ SentenceReturns(sent,
           process_sentence(resource, Cache, loads, sent, min_words))

\* line 28: return sentences
ProcessLineReturn ==
    /\ pc = "line"
    /\ pc' = "returned"
    /\ call' = [op |-> "process_line", arg |-> <<>>, ret |-> sentences,
                raised |-> FALSE, warned |-> 0, imports |-> 0,
                retval |-> <<>>]
    /\ UNCHANGED <<resource, Cache, loads, min_words, consumed, sentences>>

\* the caller is done with the result; the cache lives on
Return ==
    /\ pc = "returned"
    /\ pc' = "idle"
    /\ call' = NoCall
    /\ min_words' = 0
    /\ consumed' = 0
    /\ sentences' = <<>>
    /\ UNCHANGED <<resource, Cache, loads>>

FoldCall == \E text \in FoldTexts : Fold(text)
NormalizeCall == \E token \in Tokens : Normalize(token)
BeginCall == \E mw \in 1..MaxTokens : ProcessLineBegin(mw)
SentenceStep == \E sent \in TokenLists : ProcessLineSentence(sent)

\* the character folder called again and again
NextFold == FoldCall \/ Return
SpecFold == Init /\ [][NextFold]_vars

\* the word normalizer called again and again
NextWord == NormalizeCall \/ Renormalize \/ Return
SpecWord == Init /\ [][NextWord]_vars

\* the line processor called again and again
NextLine == BeginCall \/ SentenceStep \/ ProcessLineReturn \/ Return
SpecLine == Init /\ [][NextLine]_vars

Next ==
    \/ FoldCall
    \/ NormalizeCall
    \/ Renormalize
    \/ BeginCall
    \/ SentenceStep
    \/ ProcessLineReturn
    \/ Return
Spec == Init /\ [][Next]_vars

----------------------------------------------------------------------------
(* Vocabulary of the properties *)

\* the characters line 80 appends unchanged
PassThrough(cp) == cp < 128 \/ cp \in Retained

\* the characters the loop resolves through a table
TableResolved(cp) == ~PassThrough(cp) /\ cp <= 983039

\* a table-resolved character for which the installed resource has no table,
\* no slot, an absent slot or an empty slot
NoUsableEntry(res, cp) ==
    /\ TableResolved(cp)
    /\ \/ ~ModuleFound(res, SectionOf(cp))
       \/ TableLen(res, SectionOf(cp)) <= PositionOf(cp)
       \/ TableSlot(res, SectionOf(cp), PositionOf(cp)) \in {None, <<>>}

\* how many elements of the sequence s are in the set S
CountIn(s, S) == Cardinality({i \in 1..Len(s) : s[i] \in S})

\* how many maximal runs of digits the text holds
DigitRuns(text) ==
    Cardinality({i \in 1..Len(text) :
        text[i] \in Digits /\ (i = 1 \/ text[i - 1] \notin Digits)})

\* the token as folded and stripped of punctuation (lines 39-40); the result
\* of the fold does not depend on what the cache holds
FoldedStripped(token) ==
    remove_punctuation(unidecode_keep_umlauts(resource, Cache, loads, token).ret)

\* what normalize_word makes of each token of a sentence
WordsOf(sent) ==
    [i \in 1..Len(sent) |-> normalize_word(resource, Cache, loads, sent[i]).ret]

\* the non-empty ones among them
Survivors(sent) == SelectSeq(WordsOf(sent), LAMBDA w : w # <<>>)

\* the text has no two spaces in a row and no space at either end
SingleSpaced(text) ==
    /\ \A i \in 1..(Len(text) - 1) : ~(text[i] = 32 /\ text[i + 1] = 32)
    /\ text # <<>> => (text[1] # 32 /\ text[Len(text)] # 32)

\* a process_sentence call has just returned inside process_line's loop
SentenceReturned ==
    pc = "line" /\ call.op = "process_sentence" /\ ~call.raised

----------------------------------------------------------------------------
(* C1 *)

\* C1, as stated: normalize_word is idempotent: normalizing the result of
\* normalize_word again returns it unchanged, for every token.
C1_Idempotent ==
    call.op = "renormalize" => (~call.raised /\ call.ret = call.arg)

\* C1, amended: normalizing a result again never raises and returns it
\* without its placeholder characters '#' and without the angle brackets of
\* '<num>', stripped; so it is unchanged exactly when it holds none of them.
C1_IdempotentUpToPlaceholder ==
    call.op = "renormalize" =>
        /\ ~call.raised
        /\ call.ret =
              str_strip(SelectSeq(call.arg, LAMBDA c : c \notin {35, 60, 62}))
        /\ (\A i \in 1..Len(call.arg) : call.arg[i] \notin {35, 60, 62})
              => call.ret = call.arg

\* a result with an umlaut and no placeholder was normalized again, unchanged
C1_Witness ==
    /\ call.op = "renormalize"
    /\ 228 \in {call.arg[i] : i \in 1..Len(call.arg)}
    /\ \A i \in 1..Len(call.arg) : call.arg[i] \notin {35, 60, 62}
    /\ call.ret = call.arg

----------------------------------------------------------------------------
(* C2 *)

\* C2, as stated: the result of normalize_word holds no ASCII punctuation
\* character and no ASCII digit.
C2_NoPunctuationNoDigit ==
    (call.op = "normalize" /\ ~call.raised) =>
        \A i \in 1..Len(call.ret) : call.ret[i] \notin Punctuation \cup Digits

\* C2, amended: the result of normalize_word holds no ASCII digit, and no
\* punctuation character other than the placeholder '#', unless it is the
\* token '<num>'.
C2_OnlyPlaceholderPunctuation ==
    (call.op = "normalize" /\ ~call.raised) =>
        /\ \A i \in 1..Len(call.ret) : call.ret[i] \notin Digits
        /\ \/ call.ret = NumToken
           \/ \A i \in 1..Len(call.ret) :
                 call.ret[i] \in Punctuation => call.ret[i] = 35

\* a token with a letter, a punctuation mark and a digit was normalized
C2_Witness ==
    /\ call.op = "normalize"
    /\ call.arg = <<97, 33, 49>>
    /\ call.ret = <<97, 35>>

----------------------------------------------------------------------------
(* C3 *)

\* C3: the table of a section is loaded at most once: once the cache holds
\* an entry for a section (a table or the 'no table' marker) the entry is
\* never overwritten and no later fold tries the import again, and a text
\* of characters of a section marked 'no table' folds to nothing, from the
\* cache.
C3_LoadedAtMostOnce ==
    [][\A s \in Sections :
          /\ loads'[s] <= 1
          /\ Cache[s] # "absent" =>
                (Cache'[s] = Cache[s] /\ loads'[s] = loads[s])
          /\ ( /\ pc = "idle"
               /\ call'.op = "fold"
               /\ Cache[s] = "None"
               /\ \A i \in 1..Len(call'.arg) :
                     TableResolved(call'.arg[i]) /\ SectionOf(call'.arg[i]) = s )
             => (call'.ret = <<>> /\ ~call'.raised /\ call'.imports = 0)
      ]_vars

\* a fold answered from the cache alone: one section cached as 'no table',
\* one with its table, each loaded once
C3_Witness ==
    /\ call.op = "fold"
    /\ call.arg = <<57344, 233>>
    /\ call.imports = 0
    /\ call.ret = <<101>>
    /\ Cache[224] = "None" /\ loads[224] = 1
    /\ Cache[0] = "data" /\ loads[0] = 1

----------------------------------------------------------------------------
(* C4 *)

\* C4, as stated: acceptance is decided on the raw token count only: a
\* sentence with fewer than min_words tokens emits nothing, a sentence with
\* min_words or more tokens is emitted.
C4_EnoughRawTokensEmitted ==
    [][(pc = "line" /\ call'.op = "process_sentence" /\ ~call'.raised) =>
          IF Len(call'.arg) < min_words
          THEN sentences' = sentences
          ELSE sentences' = Append(sentences, call'.ret)
      ]_vars

\* C4, amended: a sentence with fewer than min_words tokens emits nothing;
\* for a sentence with min_words or more tokens process_sentence returns
\* the single-space join of its non-empty normalized tokens, however few
\* remain, and process_line emits it unless every token normalized to the
\* empty string, when nothing is emitted.
C4_ThresholdOnRawTokens ==
    [][(pc = "line" /\ call'.op = "process_sentence" /\ ~call'.raised) =>
          IF Len(call'.arg) < min_words
          THEN call'.ret = <<>> /\ sentences' = sentences
          ELSE /\ call'.ret = JoinSpace(Survivors(call'.arg))
               /\ sentences' =
                     IF Survivors(call'.arg) = <<>> THEN sentences
                     ELSE Append(sentences, call'.ret)
      ]_vars

\* a sentence of min_words tokens was emitted with fewer than min_words words
C4_Witness ==
    /\ SentenceReturned
    /\ min_words = 2
    /\ call.arg = <<<<97>>, <<33>>>>
    /\ call.ret = <<97>>
    /\ sentences = <<call.ret>>

----------------------------------------------------------------------------
(* C5 *)

\* C5: no sentence process_line has accepted holds two spaces in a row, or a
\* space at either end.
C5_SingleSpaced ==
    \A i \in 1..Len(sentences) : SingleSpaced(sentences[i])

----------------------------------------------------------------------------
(* C6 *)

\* C6: every maximal run of digits of the folded, punctuation-stripped token
\* becomes exactly one placeholder, and a token that is purely numeric then
\* (surrounding whitespace apart) normalizes to exactly '<num>'.
C6_DigitCollapse ==
    (call.op = "normalize" /\ ~call.raised) =>
        IF /\ str_strip(FoldedStripped(call.arg)) # <<>>
           /\ \A i \in 1..Len(str_strip(FoldedStripped(call.arg))) :
                 str_strip(FoldedStripped(call.arg))[i] \in Digits
        THEN call.ret = NumToken
        ELSE CountIn(call.ret, {35}) = DigitRuns(FoldedStripped(call.arg))

----------------------------------------------------------------------------
(* C7 *)

\* C7: a surrogate is warned about and dropped: a text of ASCII characters
\* and surrogates folds to its ASCII characters, with one warning for each
\* surrogate and no exception, whatever the resource holds.
C7_SurrogateDropped ==
    ( /\ call.op = "fold"
      /\ \A i \in 1..Len(call.arg) :
            call.arg[i] < 128 \/ IsSurrogate(call.arg[i]) )
    => /\ ~call.raised
       /\ call.ret = SelectSeq(call.arg, LAMBDA c : c < 128)
       /\ \/ call.warned = Len(call.arg) - Len(call.ret)
          \/ \A i \in 1..Len(call.arg) : call.arg[i] < 128

----------------------------------------------------------------------------
(* C8 *)

\* C8: a character with no usable transliteration entry is removed: a text
\* of pass-through characters and such characters folds, without an
\* exception, to its pass-through characters in their order.
C8_UnmappedDropped ==
    ( /\ call.op = "fold"
      /\ \A i \in 1..Len(call.arg) :
            PassThrough(call.arg[i]) \/ NoUsableEntry(resource, call.arg[i]) )
    => /\ ~call.raised
       /\ call.ret = SelectSeq(call.arg, PassThrough)

----------------------------------------------------------------------------
(* C9 *)

\* C9: ASCII and retained characters are appended unchanged whatever the
\* tables hold: the retained characters of the output are those of the
\* text, a text of pass-through characters and characters above 0xeffff
\* folds to its pass-through characters, and a fold changes the cache entry
\* and the load count of no section other than those of its table-resolved
\* characters.
C9_RetainedFirst ==
    [][(pc = "idle" /\ call'.op = "fold") =>
          /\ ~call'.raised =>
                SelectSeq(call'.ret, LAMBDA c : c \in Retained)
                    = SelectSeq(call'.arg, LAMBDA c : c \in Retained)
          /\ (\A i \in 1..Len(call'.arg) : ~TableResolved(call'.arg[i])) =>
                /\ ~call'.raised
                /\ call'.ret = SelectSeq(call'.arg, PassThrough)
                /\ call'.imports = 0
          /\ \A s \in Sections :
                (\A i \in 1..Len(call'.arg) :
                    ~(TableResolved(call'.arg[i])
                        /\ SectionOf(call'.arg[i]) = s))
                => (Cache'[s] = Cache[s] /\ loads'[s] = loads[s])
      ]_vars

\* the a umlaut was kept while the cache held the table that maps it to 'a',
\* next to a character above 0xeffff
C9_Witness ==
    /\ call.op = "fold"
    /\ call.arg = <<228, 983040>>
    /\ call.ret = <<228>>
    /\ Cache[0] = "data"
    /\ TableSlot(resource, 0, 228) = <<97>>

----------------------------------------------------------------------------
(* C10 *)

\* C10: process_line never yields an empty string: each iteration leaves
\* the list as it is or appends process_sentence's non-empty result at its
\* end, a sentence whose tokens all normalize to the empty string appends
\* nothing, and the list returned is the list so built.
C10_NoEmptySentence ==
    [][/\ \A i \in 1..Len(sentences') : sentences'[i] # <<>>
       /\ Len(sentences') <= consumed'
       /\ (pc = "line" /\ call'.op = "process_sentence") =>
             /\ sentences' \in {sentences, Append(sentences, call'.ret)}
             /\ Survivors(call'.arg) = <<>> => sentences' = sentences
       /\ call'.op = "process_line" =>
             (call'.ret = sentences /\ sentences' = sentences)
      ]_vars

\* a second sentence of min_words tokens, all normalizing to the empty
\* string, left the one accepted sentence alone
C10_Witness ==
    /\ SentenceReturned
    /\ consumed = 2
    /\ Len(call.arg) >= min_words
    /\ Survivors(call.arg) = <<>>
    /\ call.ret = <<>>
    /\ Len(sentences) = 1

=============================================================================
